---------------------------- MODULE Spec2Model ----------------------------
(***************************************************************************)
(* A model of rosetta_finder/rosetta.py: the option model                  *)
(* (RosettaScriptsVariable, RosettaScriptsVariableGroup), the node         *)
(* allocation (MPI_node, from_slurm), the command composer                 *)
(* (Rosetta.compose), the job dispatcher (Rosetta.run, run_mpi, run_local, *)
(* execute) and the score analyser (RosettaEnergyUnitAnalyser).            *)
(*                                                                         *)
(* Command-line tokens and paths are strings.  Optional values are records *)
(* [given, v]: given = FALSE is Python's None.  An option is a record      *)
(* [kind, s, vars]: kind = "str" is a plain string s, kind = "group" is a  *)
(* RosettaScriptsVariableGroup of variables vars.                          *)
(***************************************************************************)
EXTENDS Integers, Sequences, FiniteSets, TLC

VARIABLES
    files,       \* the regular files on disk (paths)
    dirs,        \* the directories on disk (paths)
    hostlines,   \* the lines of the file named node_file (<<>> when absent)
    nodes,       \* the MPI_node objects constructed so far
    job,         \* the Rosetta object
    pc,          \* where the dispatcher is: idle, or blocked in a call
    call,        \* the current (or last) dispatch call
    launched,    \* the commands handed to subprocess.Popen in this call
    launchTotal, \* subprocess.Popen calls over the whole run
    released,    \* executions of the statements after apply's yield, this call
    warned,      \* the warnings emitted in this call, in order
    tasks,       \* run_local's cmd_jobs with the state of each
    ncalls,      \* dispatch calls made so far
    composed,    \* the results of the direct compose() calls, in order
    xml,         \* one apply_to_xml_content call: its input, position and result
    built,       \* one construction of a RosettaScriptsVariableGroup
    slurm,       \* one MPI_node.from_slurm call: its environment and result
    score,       \* one RosettaEnergyUnitAnalyser: its input, table and top() call
    uid,         \* the user id of the process (os.getuid())
    peer         \* a second job batch of the same process, with its own MPI_node

vars == <<files, dirs, hostlines, nodes, job, pc, call, launched,
          launchTotal, released, warned, tasks, ncalls, composed, xml,
          built, slurm, score, uid, peer>>

\* The objects of the option model, the cluster query and the score analyser,
\* the user of the process and the second job batch: the dispatcher and the
\* composer never touch them.
libVars == <<built, slurm, score, uid, peer>>

dispatchVars == <<hostlines, nodes, pc, call, launched, launchTotal,
                  released, warned, tasks, ncalls>>

-----------------------------------------------------------------------------
(* Bounds of the model.                                                    *)

MaxNstruct == 3
MaxCalls == 2
MaxNodes == 1
MaxCompose == 2
MaxFlags == 2
MaxOpts == 2
MaxPairs == 2
MaxParts == 2
MaxRows == 3
MaxFiles == 2
MaxRank == 4
MaxHosts == 2
MaxCount == 2

-----------------------------------------------------------------------------
(* Python values.                                                          *)

NoneVal == [given |-> FALSE, v |-> <<>>]
Some(x) == [given |-> TRUE, v |-> x]
NoneInt == [given |-> FALSE, v |-> 0]

\* Python truthiness of an Optional[List] and of an Optional[int].
TruthyList(o) == o.given /\ Len(o.v) > 0
TruthyInt(o) == o.given /\ o.v # 0

Str(s) == [kind |-> "str", s |-> s, vars |-> <<>>]
Group(vs) == [kind |-> "group", s |-> "", vars |-> vs]
Var(k, v) == [k |-> k, v |-> v]

RECURSIVE Flatten(_)
Flatten(ss) == IF ss = <<>> THEN <<>> ELSE Head(ss) \o Flatten(Tail(ss))

-----------------------------------------------------------------------------
(* The option model.                                                       *)

\* RosettaScriptsVariable.aslist
aslist(var) == <<"-parser:script_vars", var.k \o "=" \o var.v>>

\* RosettaScriptsVariableGroup.aslonglist
aslonglist(g) == Flatten([i \in 1..Len(g.vars) |-> aslist(g.vars[i])])

\* Rosetta.expand_input_dict: d is the dict as its ordered items <<key, value>>.
expand_input_dict(d) ==
    Flatten([i \in 1..Len(d) |->
                IF d[i][2].kind # "group" THEN <<d[i][1], d[i][2].s>>
                ELSE aslonglist(d[i][2])])

-----------------------------------------------------------------------------
(* The command composer.                                                   *)

\* os.path.join of relative components onto a non-empty first component.
PathJoin(a, b, c) == a \o "/" \o b \o "/" \o c

\* os.makedirs(p, exist_ok=True) for p = PathJoin(a, b, c): every missing
\* directory on the way is created, an existing one is left alone.
MakeDirs(ds, a, b, c) == ds \cup {a, a \o "/" \o b, PathJoin(a, b, c)}

\* The path both output_pdb_dir and output_scorefile_dir compute; kind is
\* "pdb" or "scorefile".
OutputPath(j, kind) ==
    PathJoin(j.output_dir, j.job_id,
             IF ~j.save_all_together THEN kind ELSE "all")

\* Rosetta.output_pdb_dir: the path it returns (it raises when output_dir is
\* empty; compose reads it only under "if self.output_dir").
output_pdb_dir(j) == OutputPath(j, "pdb")

\* Rosetta.output_scorefile_dir
output_scorefile_dir(j) == OutputPath(j, "scorefile")

\* os.path.isfile
IsFileMutExists(p, fs, ds) == p \in fs \/ p \in ds
isfile(p, fs, ds) == p \in fs

\* compose, lines 371-375: "@flag" for every flag that is a file on disk.
FlagTokens(j, fs, ds) ==
    LET keep == SelectSeq(j.flags, LAMBDA f : isfile(f, fs, ds))
    IN  [i \in 1..Len(keep) |-> "@" \o keep[i]]

\* compose, lines 377-385: the string options, then every group's long list.
OptTokensMutInOrder(j) ==
    Flatten([i \in 1..Len(j.opts) |->
                IF j.opts[i].kind = "str" THEN <<j.opts[i].s>>
                ELSE aslonglist(j.opts[i])])
OptTokens(j) ==
    LET strs == SelectSeq(j.opts, LAMBDA o : o.kind = "str")
        any_rosettascript_vars == SelectSeq(j.opts, LAMBDA o : o.kind = "group")
    IN  [i \in 1..Len(strs) |-> strs[i].s]
        \o Flatten([i \in 1..Len(any_rosettascript_vars) |->
                       aslonglist(any_rosettascript_vars[i])])

\* compose, lines 387-388.
OutputTokens(j) ==
    IF j.output_dir # ""
    THEN <<"-out:path:pdb", output_pdb_dir(j),
           "-out:path:score", output_scorefile_dir(j)>>
    ELSE <<>>

\* Rosetta.compose: the command it returns.
compose(j, fs, ds) ==
    <<j.bin_path>> \o FlagTokens(j, fs, ds) \o OptTokens(j) \o OutputTokens(j)

\* Rosetta.compose: the directories on disk after it (the two output
\* properties create theirs).
ComposeDirs(j, ds) ==
    IF j.output_dir # ""
    THEN MakeDirs(MakeDirs(ds, j.output_dir, j.job_id,
                           IF ~j.save_all_together THEN "pdb" ELSE "all"),
                  j.output_dir, j.job_id,
                  IF ~j.save_all_together THEN "scorefile" ELSE "all")
    ELSE ds

-----------------------------------------------------------------------------
(* The node allocation.                                                    *)

RECURSIVE SumSlots(_)
SumSlots(m) == IF m = <<>> THEN 0 ELSE Head(m)[2] + SumSlots(Tail(m))

\* MPI_node.node_file, line 79: a class attribute, so one name for every
\* MPI_node of the process; NodeFileRand is the number random.randint drew
\* when the module was imported.
NodeFileRand == 1
node_file == "nodefile_" \o ToString(NodeFileRand) \o ".txt"

\* MPI_node.__post_init__, lines 91-93: the lines written to the host file.
HostFileLines(m) ==
    [i \in 1..Len(m) |-> m[i][1] \o " slots=" \o ToString(m[i][2])]

\* MPI_node.__post_init__ with line 94 adding the slots to the nproc given.
MpiNodePostInitMutMerge(nproc, node_matrix) ==
    [nproc |-> IF node_matrix.given THEN nproc + SumSlots(node_matrix.v) ELSE nproc,
     node_matrix |-> node_matrix,
     mpi_excutable |-> "/usr/bin/mpirun"]

\* MPI_node.__post_init__: the object after construction from the dataclass
\* arguments nproc and node_matrix (shutil.which found the launcher).
MpiNodePostInit(nproc, node_matrix) ==
    [nproc |-> IF node_matrix.given THEN SumSlots(node_matrix.v) ELSE nproc,
     node_matrix |-> node_matrix,
     mpi_excutable |-> "/usr/bin/mpirun"]

\* MPI_node(nproc, node_matrix): the constructor; with a dict as node_matrix
\* it writes the host file.
MpiNodeInit(nproc, node_matrix) ==
    /\ pc = "idle"
    /\ Len(nodes) < MaxNodes
    /\ nodes' = Append(nodes, MpiNodePostInit(nproc, node_matrix))
    /\ IF node_matrix.given
       THEN /\ files' = files \cup {node_file}
            /\ hostlines' = HostFileLines(node_matrix.v)
       ELSE UNCHANGED <<files, hostlines>>
    /\ UNCHANGED <<dirs, job, pc, call, launched, launchTotal,
                   released, warned, tasks, ncalls, composed, xml>>
    /\ UNCHANGED libVars

\* MPI_node.local
local(n) == <<n.mpi_excutable, "--use-hwthread-cpus", "-np", ToString(n.nproc)>>

\* MPI_node.host_file
host_file(n) == <<n.mpi_excutable, "--hostfile", node_file>>

\* MPI_node.apply, lines 106-109: the command the context manager yields.
ApplyCmd(n, cmd) ==
    (IF ~TruthyList(n.node_matrix) THEN local(n) ELSE host_file(n)) \o cmd

-----------------------------------------------------------------------------
(* The job specification.                                                  *)

NoJob ==
    [state |-> "none", error |-> "", bin_path |-> "", bin_mode |-> "",
     nproc |-> 0, flags |-> <<>>, opts |-> <<>>, use_mpi |-> FALSE,
     mpi_node |-> 0, job_id |-> "", output_dir |-> "",
     save_all_together |-> FALSE, use_mpi_arg |-> FALSE]

\* The dataclass fields as passed to Rosetta(...); mpi_node is the index of an
\* MPI_node in nodes, 0 for None.  use_mpi_arg keeps the use_mpi argument as
\* the caller passed it, for the properties to refer to.
JobArgs(mode, nproc, flags, opts, use_mpi, mpi_node, job_id, output_dir, together) ==
    [state |-> "new", error |-> "", bin_path |-> "/bin/app", bin_mode |-> mode,
     nproc |-> nproc, flags |-> flags, opts |-> opts, use_mpi |-> use_mpi,
     mpi_node |-> mpi_node, job_id |-> job_id, output_dir |-> output_dir,
     save_all_together |-> together, use_mpi_arg |-> use_mpi]

\* Rosetta.__post_init__, lines 226-235.
PostInitMutKeepFlag(j) ==
    IF j.mpi_node # 0 /\ j.bin_mode # "mpi"
    THEN [j EXCEPT !.state = "error", !.error = "ValueError"]
    ELSE [j EXCEPT !.state = "ok"]
PostInitMutNoRaise(j) ==
    [j EXCEPT !.state = "ok", !.use_mpi = (j.mpi_node # 0)]
PostInit(j) ==
    IF j.mpi_node # 0
    THEN IF j.bin_mode # "mpi"
         THEN [j EXCEPT !.state = "error", !.error = "ValueError"]
         ELSE [j EXCEPT !.state = "ok", !.use_mpi = TRUE]
    ELSE [j EXCEPT !.state = "ok", !.use_mpi = FALSE]

\* The warning __post_init__ emits, line 234.
PostInitWarnings(j) ==
    IF j.mpi_node = 0 THEN <<"UserWarning">> ELSE <<>>

-----------------------------------------------------------------------------
(* The job dispatcher.                                                     *)

NoCall ==
    [api |-> "none", via |-> "none", inputs |-> NoneVal, nstruct |-> NoneInt,
     base |-> <<>>, outcome |-> "none", error |-> "", ret |-> <<>>,
     hostfile |-> NoneVal]

ProcessOutcomes == {"exit0", "exit1", "oserror"}

\* The width of the task number in run_local's suffix, f"{i:05}".
PadWidth == 5

RECURSIVE Zeros(_)
Zeros(k) == IF k <= 0 THEN "" ELSE "0" \o Zeros(k - 1)

\* f"{i:05}": the decimal digits of i, zero-filled on the left to PadWidth.
Pad5(i) == LET digits == ToString(i) IN Zeros(PadWidth - Len(digits)) \o digits

\* run_mpi lines 279-281 and run_local lines 310-313: every input dict
\* expanded and appended, in order.
AllInputTokens(inputs) ==
    IF TruthyList(inputs)
    THEN Flatten([i \in 1..Len(inputs.v) |-> expand_input_dict(inputs.v[i])])
    ELSE <<>>

\* run_mpi, lines 278-284: the command handed to mpi_node.apply.
MpiCmdMutAlwaysNstruct(cmd, inputs, nstruct) ==
    cmd \o AllInputTokens(inputs)
        \o (IF nstruct.given THEN <<"-nstruct", ToString(nstruct.v)>> ELSE <<>>)
MpiCmd(cmd, inputs, nstruct) ==
    cmd \o AllInputTokens(inputs)
        \o (IF TruthyInt(nstruct) THEN <<"-nstruct", ToString(nstruct.v)>> ELSE <<>>)

\* run_local, lines 306-328: cmd_jobs.
CmdJobs(cmd, inputs, nstruct, job_id) ==
    IF TruthyInt(nstruct) /\ nstruct.v > 0
    THEN LET _cmd == cmd \o AllInputTokens(inputs)
         IN  [i \in 1..nstruct.v |->
                 _cmd \o <<"-suffix", "_" \o Pad5(i), "-no_nstruct_label",
                           "-out:file:scorefile",
                           job_id \o ".score." \o Pad5(i) \o ".sc">>]
    ELSE IF TruthyList(inputs)
    THEN [i \in 1..Len(inputs.v) |-> cmd \o expand_input_dict(inputs.v[i])]
    ELSE <<cmd>>

\* The file named node_file as a process launched now finds it: its lines, or
\* None when there is no such file.
ReadHostFile == IF isfile(node_file, files, dirs) THEN Some(hostlines) ELSE NoneVal

\* run_mpi up to the point where execute blocks on the launched process: the
\* command is built, the context manager entered and subprocess.Popen called.
\* w holds the warnings the caller emitted before the call.
StartMpi(api, cmd, inputs, nstruct, w) ==
    LET updated_cmd == ApplyCmd(nodes[job.mpi_node], MpiCmd(cmd, inputs, nstruct))
    IN  /\ pc' = "mpi_exec"
        /\ call' = [api |-> api, via |-> "mpi", inputs |-> inputs,
                    nstruct |-> nstruct, base |-> cmd, outcome |-> "running",
                    error |-> "", ret |-> <<>>, hostfile |-> ReadHostFile]
        /\ launched' = <<updated_cmd>>
        /\ launchTotal' = launchTotal + 1
        /\ released' = 0
        /\ warned' = w
        /\ tasks' = <<>>
        /\ ncalls' = ncalls + 1

\* run_local up to the Parallel(...) call: cmd_jobs is built, nothing launched.
StartLocal(api, cmd, inputs, nstruct, w) ==
    LET cmd_jobs == CmdJobs(cmd, inputs, nstruct, job.job_id)
    IN  /\ pc' = "local_exec"
        /\ call' = [api |-> api, via |-> "local", inputs |-> inputs,
                    nstruct |-> nstruct, base |-> cmd, outcome |-> "running",
                    error |-> "", ret |-> <<>>, hostfile |-> NoneVal]
        /\ launched' = <<>>
        /\ launchTotal' = launchTotal
        /\ released' = 0
        /\ warned' = w \o <<"UserWarning">>
        /\ tasks' = [i \in 1..Len(cmd_jobs) |-> [cmd |-> cmd_jobs[i], st |-> "pending"]]
        /\ ncalls' = ncalls + 1

CanCall == job.state = "ok" /\ pc = "idle" /\ ncalls < MaxCalls

\* Rosetta.run, lines 348-358.
RunWarnings(inputs) ==
    IF inputs.given THEN <<"MPI_IncompatibleInputWarning">> ELSE <<>>

Run(inputs, nstruct) ==
    /\ CanCall
    /\ dirs' = ComposeDirs(job, dirs)
    /\ IF job.use_mpi /\ job.mpi_node # 0
       THEN StartMpi("run", compose(job, files, dirs), inputs, nstruct,
                     RunWarnings(inputs))
       ELSE StartLocal("run", compose(job, files, dirs), inputs, nstruct, <<>>)
    /\ UNCHANGED <<files, hostlines, nodes, job, composed, xml>>
    /\ UNCHANGED libVars

\* Rosetta.run_mpi called by the user with cmd = self.compose(); the assert of
\* line 276 is the guard.
RunMpi(inputs, nstruct) ==
    /\ CanCall
    /\ job.mpi_node # 0
    /\ dirs' = ComposeDirs(job, dirs)
    /\ StartMpi("run_mpi", compose(job, files, dirs), inputs, nstruct, <<>>)
    /\ UNCHANGED <<files, hostlines, nodes, job, composed, xml>>
    /\ UNCHANGED libVars

\* Rosetta.run_local called by the user with cmd = self.compose().
RunLocal(inputs, nstruct) ==
    /\ CanCall
    /\ dirs' = ComposeDirs(job, dirs)
    /\ StartLocal("run_local", compose(job, files, dirs), inputs, nstruct, <<>>)
    /\ UNCHANGED <<files, hostlines, nodes, job, composed, xml>>
    /\ UNCHANGED libVars

\* The launched MPI process ends (or Popen itself raised).  On exit status 0
\* execute returns, the with-block ends and the generator of apply resumes
\* after its yield (lines 111-112); run_mpi returns [None].  Otherwise the
\* exception is thrown into the generator at the yield, which has no
\* try/finally: the statements after the yield do not run and the exception
\* leaves run_mpi.
MpiProcessEnd(outcome) ==
    /\ pc = "mpi_exec"
    /\ pc' = "idle"
    /\ IF outcome = "exit0"
       THEN /\ released' = released + 1
            /\ files' = IF isfile(node_file, files, dirs)
                        THEN files \ {node_file} ELSE files
            /\ hostlines' = IF isfile(node_file, files, dirs)
                            THEN <<>> ELSE hostlines
            /\ call' = [call EXCEPT !.outcome = "returned", !.ret = <<"None">>]
       ELSE /\ UNCHANGED <<released, files, hostlines>>
            /\ call' = [call EXCEPT !.outcome = "raised",
                           !.error = IF outcome = "exit1" THEN "RuntimeError"
                                     ELSE "OSError"]
    /\ UNCHANGED <<dirs, nodes, job, launched, launchTotal, warned,
                   tasks, ncalls, composed, xml>>
    /\ UNCHANGED libVars

Count(st) == Cardinality({i \in 1..Len(tasks) : tasks[i].st = st})

\* joblib's Parallel(n_jobs=self.nproc): the next task of cmd_jobs is handed to
\* a free worker, which calls execute (subprocess.Popen).  With one worker the
\* tasks run in the caller and the first exception ends the loop at once; with
\* more, tasks dispatched ahead may still start before the caller sees it.
LocalLaunch ==
    /\ pc = "local_exec"
    /\ Count("running") < job.nproc
    /\ (Count("failed") > 0) => (job.nproc > 1)
    /\ \E i \in 1..Len(tasks) :
        /\ tasks[i].st = "pending"
        /\ \A k \in 1..(i - 1) : tasks[k].st # "pending"
        /\ tasks' = [tasks EXCEPT ![i].st = "running"]
        /\ launched' = Append(launched, tasks[i].cmd)
    /\ launchTotal' = launchTotal + 1
    /\ UNCHANGED <<files, dirs, hostlines, nodes, job, pc, call,
                   released, warned, ncalls, composed, xml>>
    /\ UNCHANGED libVars

\* A launched task's process ends; execute returns None on exit status 0 and
\* raises RuntimeError otherwise (lines 253-260).
LocalExit(i, outcome) ==
    /\ pc = "local_exec"
    /\ i \in 1..Len(tasks)
    /\ tasks[i].st = "running"
    /\ tasks' = [tasks EXCEPT ![i].st = IF outcome = "exit0" THEN "ok" ELSE "failed"]
    /\ UNCHANGED <<files, dirs, hostlines, nodes, job, pc, call,
                   launched, launchTotal, released, warned, ncalls, composed, xml>>
    /\ UNCHANGED libVars

\* Every task returned: Parallel returns their results and run_local returns
\* list(ret), a None per task (lines 330-334).
LocalReturn ==
    /\ pc = "local_exec"
    /\ \A i \in 1..Len(tasks) : tasks[i].st = "ok"
    /\ pc' = "idle"
    /\ call' = [call EXCEPT !.outcome = "returned",
                            !.ret = [i \in 1..Len(tasks) |-> "None"]]
    /\ UNCHANGED <<files, dirs, hostlines, nodes, job, launched,
                   launchTotal, released, warned, tasks, ncalls, composed, xml>>
    /\ UNCHANGED libVars

\* A task raised: Parallel stops dispatching, aborts its workers and re-raises
\* the task's exception in the caller; run_local has no handler, so the
\* exception leaves it and no list is returned.
LocalRaise ==
    /\ pc = "local_exec"
    /\ Count("failed") > 0
    /\ pc' = "idle"
    /\ tasks' = [i \in 1..Len(tasks) |->
                    IF tasks[i].st = "pending" THEN [tasks[i] EXCEPT !.st = "cancelled"]
                    ELSE IF tasks[i].st = "running" THEN [tasks[i] EXCEPT !.st = "aborted"]
                    ELSE tasks[i]]
    /\ call' = [call EXCEPT !.outcome = "raised", !.error = "RuntimeError"]
    /\ UNCHANGED <<files, dirs, hostlines, nodes, job, launched,
                   launchTotal, released, warned, ncalls, composed, xml>>
    /\ UNCHANGED libVars

\* Rosetta(...): the constructor.
RosettaInit(args) ==
    /\ pc = "idle"
    /\ job.state = "none"
    /\ job' = PostInit(args)
    /\ warned' = IF PostInit(args).state = "ok" THEN PostInitWarnings(args) ELSE <<>>
    /\ UNCHANGED <<files, dirs, hostlines, nodes, pc, call, launched,
                   launchTotal, released, tasks, ncalls, composed, xml>>
    /\ UNCHANGED libVars

-----------------------------------------------------------------------------
(* The dispatcher's specification: allocations are constructed, one job is *)
(* constructed, and the job is dispatched MaxCalls times through run,      *)
(* run_mpi or run_local.                                                   *)

MaxInputs == 2

\* The i-th per-task input dict: a file option, and for even i a variable
\* group as well.
InputDict(i) ==
    IF i % 2 = 1
    THEN << <<"-in:file:s", Str("input" \o ToString(i) \o ".pdb")>> >>
    ELSE << <<"-in:file:s", Str("input" \o ToString(i) \o ".pdb")>>,
            <<"rsv", Group(<<Var("cst", "0.4")>>)>> >>

InputChoices ==
    {NoneVal} \cup {Some([i \in 1..k |-> InputDict(i)]) : k \in 0..MaxInputs}

NstructChoices == {NoneInt} \cup {[given |-> TRUE, v |-> n] : n \in (-1)..MaxNstruct}

NprocChoices == {4}

MatrixChoices ==
    {NoneVal, Some(<<>>), Some(<< <<"node1", 2>>, <<"node2", 1>> >>)}

\* Rosetta.nproc, the width of the worker pool.
WorkerChoices == {1, 2}

DispatchJobs ==
    {JobArgs(mode, nproc, <<"f.flag">>, <<Str("-x"), Str("1")>>, use_mpi, node,
             "j1", out, FALSE) :
        mode \in {"mpi", "static"}, nproc \in WorkerChoices, use_mpi \in BOOLEAN,
        node \in 0..Len(nodes), out \in {"out"}}

NoXml ==
    [group |-> <<>>, content |-> <<>>, i |-> 0, state |-> "none",
     out |-> <<>>, warnings |-> 0]

NoBuilt == [state |-> "none"]
NoSlurm == [state |-> "none"]
NoScore == [state |-> "none"]

NoPeer == [pc |-> "none"]

\* The users a process runs as: root and an ordinary user.
UserIds == {0, 8964}

InitLib ==
    /\ built = NoBuilt
    /\ slurm = NoSlurm
    /\ score = NoScore
    /\ uid \in UserIds
    /\ peer = NoPeer

Init ==
    /\ files = {"f.flag"}
    /\ dirs = {}
    /\ hostlines = <<>>
    /\ nodes = <<>>
    /\ job = NoJob
    /\ pc = "idle"
    /\ call = NoCall
    /\ launched = <<>>
    /\ launchTotal = 0
    /\ released = 0
    /\ warned = <<>>
    /\ tasks = <<>>
    /\ ncalls = 0
    /\ composed = <<>>
    /\ xml = NoXml
    /\ InitLib

Next ==
    \/ \E nproc \in NprocChoices, m \in MatrixChoices : MpiNodeInit(nproc, m)
    \/ \E args \in DispatchJobs : RosettaInit(args)
    \/ \E inputs \in InputChoices, nstruct \in NstructChoices : Run(inputs, nstruct)
    \/ \E inputs \in InputChoices, nstruct \in NstructChoices : RunMpi(inputs, nstruct)
    \/ \E inputs \in InputChoices, nstruct \in NstructChoices : RunLocal(inputs, nstruct)
    \/ \E outcome \in ProcessOutcomes : MpiProcessEnd(outcome)
    \/ LocalLaunch
    \/ \E i \in 1..MaxNstruct + MaxInputs, outcome \in ProcessOutcomes : LocalExit(i, outcome)
    \/ LocalReturn
    \/ LocalRaise

Spec == Init /\ [][Next]_vars

\* The MPI strategy alone: allocations, the job, run and run_mpi up to the end
\* of the launched process.  A run that delegates to run_local stops at the
\* Parallel call, whose worker pool is stepped by Next only.
NextMpi ==
    \/ \E nproc \in NprocChoices, m \in MatrixChoices : MpiNodeInit(nproc, m)
    \/ \E args \in DispatchJobs : RosettaInit(args)
    \/ \E inputs \in InputChoices, nstruct \in NstructChoices : Run(inputs, nstruct)
    \/ \E inputs \in InputChoices, nstruct \in NstructChoices : RunMpi(inputs, nstruct)
    \/ \E outcome \in ProcessOutcomes : MpiProcessEnd(outcome)

SpecMpi == Init /\ [][NextMpi]_vars

-----------------------------------------------------------------------------
(* Properties of the dispatcher.                                           *)

\* What the properties expect of one override entry: every scalar item gives
\* its key and its value, every variable group gives, per variable, the fixed
\* token and "key=value".
RECURSIVE ExpectedVars(_)
ExpectedVars(vs) ==
    IF vs = <<>> THEN <<>>
    ELSE <<"-parser:script_vars", Head(vs).k \o "=" \o Head(vs).v>>
         \o ExpectedVars(Tail(vs))

RECURSIVE ExpectedEntry(_)
ExpectedEntry(d) ==
    IF d = <<>> THEN <<>>
    ELSE (IF Head(d)[2].kind = "str" THEN <<Head(d)[1], Head(d)[2].s>>
          ELSE ExpectedVars(Head(d)[2].vars))
         \o ExpectedEntry(Tail(d))

RECURSIVE ExpectedEntries(_)
ExpectedEntries(ds) ==
    IF ds = <<>> THEN <<>> ELSE ExpectedEntry(Head(ds)) \o ExpectedEntries(Tail(ds))

\* The launcher prefix of the job's allocation.
ExpectedPrefix ==
    LET n == nodes[job.mpi_node]
    IN  IF n.node_matrix.given /\ n.node_matrix.v # <<>>
        THEN <<"/usr/bin/mpirun", "--hostfile", node_file>>
        ELSE <<"/usr/bin/mpirun", "--use-hwthread-cpus", "-np", ToString(n.nproc)>>

MpiCallDone == pc = "idle" /\ call.via = "mpi"
LocalCallDone == pc = "idle" /\ call.via = "local"

Occurrences(w, name) == Cardinality({i \in 1..Len(w) : w[i] = name})

\* C1: every MPI dispatch runs the host-file release step (the statements
\* after the yield of MPI_node.apply) exactly once, on every exit path, and
\* after a dispatch whose launch failed the host file is gone from disk.
C1_ReleaseOncePerMpiCall ==
    MpiCallDone =>
        /\ released = 1
        /\ (call.outcome = "raised" => node_file \notin files)

\* C2: in local dispatch a failed task neither stops its siblings nor leaves
\* run_local as an exception: all N tasks are launched and run to completion
\* and run_local returns N records.
C2_LocalFailureIsolated ==
    LocalCallDone =>
        /\ call.outcome = "returned"
        /\ Len(call.ret) = Len(tasks)
        /\ Len(launched) = Len(tasks)
        /\ \A i \in 1..Len(tasks) : tasks[i].st \in {"ok", "failed"}

C4_IncompatibleInputWarnedOnce ==
    (call.via = "mpi" /\ TruthyList(call.inputs)) =>
        /\ Occurrences(warned, "MPI_IncompatibleInputWarning") = 1
        /\ Len(launched) = 1

\* C5: for every constructed job, use_mpi is true exactly when an allocation
\* was supplied, whatever use_mpi the caller passed, and run delegates to
\* run_mpi exactly when the binary is an MPI build and an allocation was
\* supplied, and to run_local otherwise.
C5_DispatchSelection ==
    /\ job.state = "ok" => (job.use_mpi <=> job.mpi_node # 0)
    /\ call.api = "run" =>
          /\ call.via = "mpi" <=> (job.bin_mode = "mpi" /\ job.mpi_node # 0)
          /\ call.via = "local" <=> ~(job.bin_mode = "mpi" /\ job.mpi_node # 0)

C5_Witness ==
    /\ job.state = "ok"
    /\ job.mpi_node # 0
    /\ ~job.use_mpi_arg
    /\ job.use_mpi
    /\ call.api = "run"
    /\ call.via = "mpi"
    /\ pc = "idle"

C7_LocalExpansion ==
    call.via = "local" =>
        /\ IF TruthyList(call.inputs)
           THEN /\ Len(tasks) = Len(call.inputs.v)
                /\ \A i \in 1..Len(tasks) :
                      tasks[i].cmd = call.base \o ExpectedEntry(call.inputs.v[i])
           ELSE IF call.nstruct.given /\ call.nstruct.v >= 1
           THEN /\ Len(tasks) = call.nstruct.v
                /\ \A i \in 1..Len(tasks) :
                      tasks[i].cmd =
                          call.base \o <<"-suffix", "_0000" \o ToString(i),
                                         "-no_nstruct_label", "-out:file:scorefile",
                                         job.job_id \o ".score.0000" \o ToString(i) \o ".sc">>
                /\ \A i, k \in 1..Len(tasks) : i # k => tasks[i].cmd # tasks[k].cmd
           ELSE /\ Len(tasks) = 1
                /\ tasks[1].cmd = call.base
        /\ pc = "idle" => (call.outcome = "returned" /\ Len(call.ret) = Len(tasks))

-----------------------------------------------------------------------------
(* The composer's specification: a constructed job, drawn from flag lists, *)
(* option lists and output layouts, is composed MaxCompose times while the *)
(* environment creates and deletes flag files.                             *)

RECURSIVE SeqsUpTo(_, _)
SeqsUpTo(S, n) ==
    IF n = 0 THEN {<<>>}
    ELSE LET shorter == SeqsUpTo(S, n - 1)
         IN  shorter \cup {Append(q, x) : q \in shorter, x \in S}

\* Flag files the environment may hold, and the paths a job may list: the
\* last one is no flag file but the pdb directory compose creates.
FlagFiles == {"f.flag", "g.flag"}
FlagPaths == FlagFiles \cup {"out/j1/pdb"}

ComposeOpts ==
    {Str("-x"), Str("1"),
     Group(<<Var("a", "1"), Var("b", "2")>>), Group(<<Var("c", "3")>>)}

ComposeJobs ==
    {PostInit(JobArgs("static", 1, flags, opts, FALSE, 0, "j1", out, together)) :
        flags \in SeqsUpTo(FlagPaths, MaxFlags),
        opts \in SeqsUpTo(ComposeOpts, MaxOpts),
        out \in {"", "out"}, together \in BOOLEAN}

InitCompose ==
    /\ files = {"f.flag"}
    /\ dirs = {}
    /\ hostlines = <<>>
    /\ nodes = <<>>
    /\ job \in ComposeJobs
    /\ pc = "idle"
    /\ call = NoCall
    /\ launched = <<>>
    /\ launchTotal = 0
    /\ released = 0
    /\ warned = <<>>
    /\ tasks = <<>>
    /\ ncalls = 0
    /\ composed = <<>>
    /\ xml = NoXml
    /\ InitLib

\* rosetta.compose() called by the user: the command is returned (kept in
\* composed with the disk it was computed on) and the output directories exist
\* afterwards.
Compose ==
    /\ job.state = "ok"
    /\ Len(composed) < MaxCompose
    /\ composed' = Append(composed, [cmd |-> compose(job, files, dirs),
                                     files |-> files, dirs |-> dirs, job |-> job])
    /\ dirs' = ComposeDirs(job, dirs)
    /\ UNCHANGED <<files, job, xml>>
    /\ UNCHANGED libVars
    /\ UNCHANGED dispatchVars

\* The environment creates or deletes the flag file f (f.flag stays in place).
EnvToggleFlag(f) ==
    /\ files' = IF f \in files THEN files \ {f} ELSE files \cup {f}
    /\ UNCHANGED <<dirs, job, composed, xml>>
    /\ UNCHANGED libVars
    /\ UNCHANGED dispatchVars

NextCompose ==
    \/ Compose
    \/ \E f \in FlagFiles \ {"f.flag"} : EnvToggleFlag(f)

SpecCompose == InitCompose /\ [][NextCompose]_vars

-----------------------------------------------------------------------------
(* Properties of the composer.                                             *)

\* C8: compose is deterministic: two calls on the same job with the same
\* files on disk return the same token sequence, also when the earlier call
\* created the output directories in between, and the job's fields are left
\* as they were.
C8_ComposeDeterministic ==
    \A i, k \in 1..Len(composed) :
        /\ composed[i].job = job
        /\ composed[i].files = composed[k].files =>
              composed[i].cmd = composed[k].cmd

C8_Witness ==
    /\ Len(composed) = 2
    /\ composed[1].files = composed[2].files
    /\ composed[1].dirs # composed[2].dirs
    /\ "out/j1/pdb" \in composed[2].dirs
    /\ Len(composed[2].cmd) > 1

RECURSIVE ExpectedFlags(_, _)
ExpectedFlags(fl, fs) ==
    IF fl = <<>> THEN <<>>
    ELSE (IF Head(fl) \in fs THEN <<"@" \o Head(fl)>> ELSE <<>>)
         \o ExpectedFlags(Tail(fl), fs)

RECURSIVE ExpectedScalars(_)
ExpectedScalars(os) ==
    IF os = <<>> THEN <<>>
    ELSE (IF Head(os).kind = "str" THEN <<Head(os).s>> ELSE <<>>)
         \o ExpectedScalars(Tail(os))

RECURSIVE ExpectedGroups(_)
ExpectedGroups(os) ==
    IF os = <<>> THEN <<>>
    ELSE (IF Head(os).kind = "group" THEN ExpectedVars(Head(os).vars) ELSE <<>>)
         \o ExpectedGroups(Tail(os))

ExpectedOutput(j) ==
    IF j.output_dir = "" THEN <<>>
    ELSE IF j.save_all_together
    THEN <<"-out:path:pdb", j.output_dir \o "/" \o j.job_id \o "/all",
           "-out:path:score", j.output_dir \o "/" \o j.job_id \o "/all">>
    ELSE <<"-out:path:pdb", j.output_dir \o "/" \o j.job_id \o "/pdb",
           "-out:path:score", j.output_dir \o "/" \o j.job_id \o "/scorefile">>

-----------------------------------------------------------------------------
(* apply_to_xml_content.  Texts, keys and values are sequences of           *)
(* characters here, so that markers can be searched and replaced.          *)

\* f"%%{k}%%"
Marker(k) == <<"%", "%">> \o k \o <<"%", "%">>

\* Python's "pat in text".
Contains(text, pat) ==
    \E p \in 1..(Len(text) - Len(pat) + 1) :
        SubSeq(text, p, p + Len(pat) - 1) = pat

\* str.replace(pat, rep) for a non-empty pat: every occurrence, found from
\* the left without overlap, is replaced.
RECURSIVE Replace(_, _, _)
Replace(text, pat, rep) ==
    IF Len(text) < Len(pat) THEN text
    ELSE IF SubSeq(text, 1, Len(pat)) = pat
    THEN rep \o Replace(SubSeq(text, Len(pat) + 1, Len(text)), pat, rep)
    ELSE <<Head(text)>> \o Replace(Tail(text), pat, rep)

\* RosettaScriptsVariableGroup.asdict, in the order a for loop over the dict
\* visits it: its keys, each once, in the order of first insertion.
RECURSIVE DictKeys(_, _)
DictKeys(vs, seen) ==
    IF vs = <<>> THEN <<>>
    ELSE IF Head(vs).k \in seen THEN DictKeys(Tail(vs), seen)
    ELSE <<Head(vs).k>> \o DictKeys(Tail(vs), seen \cup {Head(vs).k})

asdict(vs) == DictKeys(vs, {})

\* One round of the loop of lines 66-70.  "for k, v in self.asdict" iterates
\* the dict itself, that is its keys, and unpacks each key, a string, into k
\* and v: a key of two characters gives k its first and v its second
\* character, any other key raises ValueError.
XmlLoopStep ==
    /\ xml.state = "running"
    /\ xml.i < Len(asdict(xml.group))
    /\ LET item == asdict(xml.group)[xml.i + 1]
       IN  IF Len(item) # 2
           THEN xml' = [xml EXCEPT !.state = "raised"]
           ELSE LET k == <<item[1]>>
                    v == <<item[2]>>
                IN  IF ~Contains(xml.out, Marker(k))
                    THEN xml' = [xml EXCEPT !.i = @ + 1, !.warnings = @ + 1]
                    ELSE xml' = [xml EXCEPT !.i = @ + 1,
                                            !.out = Replace(xml.out, Marker(k), v)]
    /\ UNCHANGED <<files, dirs, job, composed>>
    /\ UNCHANGED libVars
    /\ UNCHANGED dispatchVars

\* Line 72: the loop is over and the copy is returned.
XmlReturn ==
    /\ xml.state = "running"
    /\ xml.i = Len(asdict(xml.group))
    /\ xml' = [xml EXCEPT !.state = "returned"]
    /\ UNCHANGED <<files, dirs, job, composed>>
    /\ UNCHANGED libVars
    /\ UNCHANGED dispatchVars

XmlKeys == {<<"a">>, <<"a", "b">>, <<"c", "s", "t">>}
XmlValues == {<<"1">>, <<"0", ".", "4">>}
XmlVars == {Var(k, v) : k \in XmlKeys, v \in XmlValues}

\* Groups as from_dict builds them: not empty, no key twice.
XmlGroups ==
    {g \in SeqsUpTo(XmlVars, MaxPairs) :
        /\ g # <<>>
        /\ \A i, j \in 1..Len(g) : i # j => g[i].k # g[j].k}

XmlParts == {Marker(k) : k \in XmlKeys} \cup {<<"x">>}
XmlTemplates == {Flatten(ps) : ps \in SeqsUpTo(XmlParts, MaxParts)}

\* apply_to_xml_content has been called on a group with a template and has
\* made its copy (line 65).
InitXml ==
    /\ files = {"f.flag"}
    /\ dirs = {}
    /\ hostlines = <<>>
    /\ nodes = <<>>
    /\ job = NoJob
    /\ pc = "idle"
    /\ call = NoCall
    /\ launched = <<>>
    /\ launchTotal = 0
    /\ released = 0
    /\ warned = <<>>
    /\ tasks = <<>>
    /\ ncalls = 0
    /\ composed = <<>>
    /\ \E g \in XmlGroups, t \in XmlTemplates :
          xml = [group |-> g, content |-> t, i |-> 0, state |-> "running",
                 out |-> t, warnings |-> 0]
    /\ InitLib

NextXml == XmlLoopStep \/ XmlReturn

SpecXml == InitXml /\ [][NextXml]_vars

\* What C10 expects of the pairs vs applied to text in order: a pair whose
\* marker occurs has every occurrence replaced by its value, any other pair
\* leaves the text as it is.
RECURSIVE ExpectedApply(_, _)
ExpectedApply(vs, text) ==
    IF vs = <<>> THEN text
    ELSE ExpectedApply(Tail(vs),
                       IF Contains(text, Marker(Head(vs).k))
                       THEN Replace(text, Marker(Head(vs).k), Head(vs).v)
                       ELSE text)

\* The pairs whose marker is absent when their turn comes.
RECURSIVE ExpectedWarnings(_, _)
ExpectedWarnings(vs, text) ==
    IF vs = <<>> THEN 0
    ELSE IF Contains(text, Marker(Head(vs).k))
    THEN ExpectedWarnings(Tail(vs), Replace(text, Marker(Head(vs).k), Head(vs).v))
    ELSE 1 + ExpectedWarnings(Tail(vs), text)

\* C10: for every non-empty group and every template the call completes
\* normally, whatever the length of the keys, and returns the template with
\* every occurrence of each present marker %%key%% replaced by the pair's
\* value, one RosettaScriptVariableNotExistWarning per absent marker.
C10_ApplySubstitutesEveryMarker ==
    xml.state \in {"returned", "raised"} =>
        /\ xml.state = "returned"
        /\ xml.out = ExpectedApply(xml.group, xml.content)
        /\ xml.warnings = ExpectedWarnings(xml.group, xml.content)

-----------------------------------------------------------------------------
(* Construction of a RosettaScriptsVariableGroup: by from_dict from a      *)
(* mapping, or by the dataclass constructor from a list of variables.  A   *)
(* mapping is the sequence of its <<key, value>> items in insertion order; *)
(* a value is a Python str or int.                                         *)

PyStr(s) == [kind |-> "str", s |-> s, n |-> 0]
PyInt(n) == [kind |-> "int", s |-> "", n |-> n]

\* str(v), line 58.
str(v) == IF v.kind = "str" THEN v.s ELSE ToString(v.n)

\* RosettaScriptsVariableGroup.empty
empty(vs) == Len(vs) = 0

\* from_dict, line 58: the list of variables built from the items.
FromDictVariables(var_pair) ==
    [i \in 1..Len(var_pair) |-> Var(var_pair[i][1], str(var_pair[i][2]))]

\* RosettaScriptsVariableGroup.from_dict(var_pair), lines 58-62.
FromDict ==
    /\ built.state = "called"
    /\ built.api = "from_dict"
    /\ LET variables == FromDictVariables(built.var_pair)
       IN  built' = IF empty(variables)
                    THEN [built EXCEPT !.state = "raised", !.error = "ValueError"]
                    ELSE [built EXCEPT !.state = "returned", !.variables = variables]
    /\ UNCHANGED <<files, dirs, job, composed, xml, slurm, score, uid, peer>>
    /\ UNCHANGED dispatchVars

\* RosettaScriptsVariableGroup(variables), lines 40-42: the generated
\* constructor stores the list; the class has no __post_init__.
GroupInit ==
    /\ built.state = "called"
    /\ built.api = "init"
    /\ built' = [built EXCEPT !.state = "returned"]
    /\ UNCHANGED <<files, dirs, job, composed, xml, slurm, score, uid, peer>>
    /\ UNCHANGED dispatchVars

GroupKeys == {"a", "cst", "w"}
GroupValues == {PyStr("1"), PyStr("0.4"), PyInt(25)}
GroupItems == {<<k, v>> : k \in GroupKeys, v \in GroupValues}

\* The mappings of at most MaxPairs items: no key twice.
GroupDicts ==
    {d \in SeqsUpTo(GroupItems, MaxPairs) :
        \A i, j \in 1..Len(d) : i # j => d[i][1] # d[j][1]}

\* The lists of variables handed to the constructor.
GroupLists ==
    SeqsUpTo({Var(k, v) : k \in {"a", "cst"}, v \in {"1", "0.4"}}, MaxPairs)

InitGroup ==
    /\ files = {"f.flag"}
    /\ dirs = {}
    /\ hostlines = <<>>
    /\ nodes = <<>>
    /\ job = NoJob
    /\ pc = "idle"
    /\ call = NoCall
    /\ launched = <<>>
    /\ launchTotal = 0
    /\ released = 0
    /\ warned = <<>>
    /\ tasks = <<>>
    /\ ncalls = 0
    /\ composed = <<>>
    /\ xml = NoXml
    /\ slurm = NoSlurm
    /\ score = NoScore
    /\ uid \in UserIds
    /\ peer = NoPeer
    /\ \/ \E d \in GroupDicts :
             built = [state |-> "called", api |-> "from_dict", var_pair |-> d,
                      variables |-> <<>>, error |-> ""]
       \/ \E vs \in GroupLists :
             built = [state |-> "called", api |-> "init", var_pair |-> <<>>,
                      variables |-> vs, error |-> ""]

NextGroup == FromDict \/ GroupInit

SpecGroup == InitGroup /\ [][NextGroup]_vars

\* The tokens C11 expects of the items of a mapping, in input order.
RECURSIVE ExpectedGroupTokens(_)
ExpectedGroupTokens(d) ==
    IF d = <<>> THEN <<>>
    ELSE <<"-parser:script_vars",
           Head(d)[1] \o "=" \o (IF Head(d)[2].kind = "str" THEN Head(d)[2].s
                                 ELSE ToString(Head(d)[2].n))>>
         \o ExpectedGroupTokens(Tail(d))

\* C11, for from_dict: a group built from a non-empty mapping expands to
\* 2 x |pairs| tokens, in input order, each pair giving "-parser:script_vars"
\* and "key=value"; from_dict of an empty mapping raises.
C11_FromDictExpansion ==
    (built.state \in {"returned", "raised"} /\ built.api = "from_dict") =>
        IF built.var_pair # <<>>
        THEN /\ built.state = "returned"
             /\ Len(aslonglist(Group(built.variables))) = 2 * Len(built.var_pair)
             /\ aslonglist(Group(built.variables)) = ExpectedGroupTokens(built.var_pair)
        ELSE built.state = "raised"

\* C11: the same, and constructing a variable group from an empty set of
\* pairs fails, so that no empty variable group exists: every construction
\* that returned a group returned a group that is not empty.
C11_NoEmptyGroup ==
    /\ C11_FromDictExpansion
    /\ (built.state = "returned") => ~empty(built.variables)

-----------------------------------------------------------------------------
(* Properties of the node allocation.                                      *)

\* The slots of the first n hosts of a host mapping, added up.
RECURSIVE SlotsUpTo(_, _)
SlotsUpTo(m, n) == IF n = 0 THEN 0 ELSE SlotsUpTo(m, n - 1) + m[n][2]

\* C12: every allocation that has a host mapping has a process count equal
\* to the sum of its per-host slots, whatever count was passed at
\* construction, in every state: before, during and after dispatch calls.
C12_NprocIsSlotSum ==
    \A i \in 1..Len(nodes) :
        nodes[i].node_matrix.given =>
            nodes[i].nproc = SlotsUpTo(nodes[i].node_matrix.v,
                                       Len(nodes[i].node_matrix.v))

\* An allocation built from hosts whose slots do not add up to the count
\* passed has been used by a dispatch call that is over.
C12_Witness ==
    /\ MpiCallDone
    /\ nodes[job.mpi_node].node_matrix.given
    /\ nodes[job.mpi_node].node_matrix.v # <<>>
    /\ \A nproc \in NprocChoices : nodes[job.mpi_node].nproc # nproc

-----------------------------------------------------------------------------
(* RosettaEnergyUnitAnalyser.  A data frame is a record [columns, rows]:   *)
(* columns is the set of column names, rows the sequence of rows in index  *)
(* order, each a function from the columns to cells.  A cell is a record   *)
(* [nan, v, s]: a number v, a string s, or NaN.  Scores are integers.      *)

Num(v) == [nan |-> FALSE, v |-> v, s |-> ""]
Txt(s) == [nan |-> FALSE, v |-> 0, s |-> s]
NaN == [nan |-> TRUE, v |-> 0, s |-> ""]

NoDf == [columns |-> {}, rows |-> <<>>]

\* scorefile2df, lines 420-425: the parsed file without its "SCORE:" column.
scorefile2df(f) ==
    IF "SCORE:" \in f.columns
    THEN [columns |-> f.columns \ {"SCORE:"},
          rows |-> [i \in 1..Len(f.rows) |->
                       [c \in f.columns \ {"SCORE:"} |-> f.rows[i][c]]]]
    ELSE [columns |-> f.columns, rows |-> f.rows]

\* pd.concat(dfs, axis=0, ignore_index=True) of a non-empty list, line 440:
\* the default join is "outer", so the result has the union of the columns
\* and a row has NaN in every column its own frame lacks.
RECURSIVE AllColumns(_)
AllColumns(dfs) ==
    IF dfs = <<>> THEN {} ELSE Head(dfs).columns \cup AllColumns(Tail(dfs))

Widen(df, cols) ==
    [i \in 1..Len(df.rows) |->
        [c \in cols |-> IF c \in df.columns THEN df.rows[i][c] ELSE NaN]]

concat(dfs) ==
    [columns |-> AllColumns(dfs),
     rows |-> Flatten([k \in 1..Len(dfs) |-> Widen(dfs[k], AllColumns(dfs))])]

\* The entries of a directory whose names end in ".sc", line 437.
RECURSIVE ScEntries(_)
ScEntries(es) ==
    IF es = <<>> THEN <<>>
    ELSE (IF Head(es).sc THEN <<Head(es)>> ELSE <<>>) \o ScEntries(Tail(es))

\* RosettaEnergyUnitAnalyser(score_file, score_term): __post_init__,
\* lines 431-445.  pd.concat raises ValueError on an empty list.
Load ==
    /\ score.state = "new"
    /\ LET p == score.path
           dfs == [k \in 1..Len(ScEntries(p.entries)) |->
                      scorefile2df(ScEntries(p.entries)[k].table)]
           df == IF p.kind = "file" THEN scorefile2df(p.table) ELSE concat(dfs)
       IN  IF p.kind = "missing"
           THEN score' = [score EXCEPT !.state = "raised",
                                       !.error = "FileNotFoundError"]
           ELSE IF p.kind = "dir" /\ dfs = <<>>
           THEN score' = [score EXCEPT !.state = "raised", !.error = "ValueError",
                                       !.warnings = <<"UserWarning">>]
           ELSE IF score.score_term \notin df.columns
           THEN score' = [score EXCEPT !.state = "raised", !.error = "ValueError",
                             !.warnings = IF p.kind = "dir" THEN <<"UserWarning">>
                                          ELSE <<>>]
           ELSE score' = [score EXCEPT !.state = "loaded", !.df = df,
                             !.warnings = IF p.kind = "dir" THEN <<"UserWarning">>
                                          ELSE <<>>]
    /\ UNCHANGED <<files, dirs, job, composed, xml, built, slurm, uid, peer>>
    /\ UNCHANGED dispatchVars

\* The order of two cells under sort_values: ascending, NaN after every number.
CellLess(a, b) == ~a.nan /\ (b.nan \/ a.v < b.v)

\* df.sort_values(by=col), line 500, with the default kind="quicksort", which
\* is not a stable sort: the result is some arrangement of the rows in
\* ascending order of col; the rows with NaN come last in their index order.
SortedOrders(rows, col) ==
    {o \in Permutations(1..Len(rows)) :
        \A i, j \in 1..Len(rows) :
            i < j => /\ ~CellLess(rows[o[j]][col], rows[o[i]][col])
                     /\ (rows[o[i]][col].nan /\ rows[o[j]][col].nan) => o[i] < o[j]}

Min(a, b) == IF a <= b THEN a ELSE b

\* df2dict, lines 459-465, of the rows o[1], .., o[n] of a frame.
df2dict(rows, o, n, k) ==
    [i \in 1..n |-> [score |-> rows[o[i]][k], decoy |-> rows[o[i]]["description"].s]]

\* analyser.top(rank, score_term), lines 494-504.
Top(rank, field) ==
    /\ score.state = "loaded"
    /\ IF rank <= 0
       THEN score' = [score EXCEPT !.state = "top_raised", !.error = "ValueError",
                                   !.rank = rank, !.field = field]
       ELSE LET score_term == IF field.given /\ field.v \in score.df.columns
                              THEN field.v ELSE score.score_term
            IN  \E o \in SortedOrders(score.df.rows, score_term) :
                   score' = [score EXCEPT
                       !.state = "top_returned", !.rank = rank, !.field = field,
                       !.result = df2dict(score.df.rows, o,
                                          Min(rank, Len(score.df.rows)), score_term)]
    /\ UNCHANGED <<files, dirs, job, composed, xml, built, slurm, uid, peer>>
    /\ UNCHANGED dispatchVars

ScoreValues == {2, 5}
ScoreSchemas == {{"total_score"}, {"total_score", "fa_rep"}, {"fa_rep"}}
DecoyLetters == <<"A", "B", "C", "D", "E", "F">>

\* The i-th decoy of the f-th score file.
DecoyName(f, i) ==
    (IF i <= Len(DecoyLetters) THEN DecoyLetters[i] ELSE "X" \o ToString(i))
    \o (IF f = 1 THEN "" ELSE ToString(f))

\* The f-th score file as pd.read_fwf parses it: a "SCORE:" column, the
\* columns of its schema and the description; total_score of row i is
\* vals[i] and fa_rep is its negative.
RawTable(schema, vals, f) ==
    [columns |-> {"SCORE:", "description"} \cup schema,
     rows |-> [i \in 1..Len(vals) |->
                  [c \in {"SCORE:", "description"} \cup schema |->
                      CASE c = "SCORE:" -> Txt("SCORE:")
                        [] c = "description" -> Txt(DecoyName(f, i))
                        [] c = "total_score" -> Num(vals[i])
                        [] OTHER -> Num(0 - vals[i])]]]

RawTables(f) ==
    {RawTable(schema, vals, f) :
        schema \in ScoreSchemas, vals \in SeqsUpTo(ScoreValues, MaxRows)}

\* The entries of a directory: score files of every schema with no row, one
\* row or two rows, and one file of another suffix.
DirEntries(f) ==
    {[sc |-> TRUE, table |-> RawTable(schema, vals, f)] :
        schema \in ScoreSchemas, vals \in {<<>>, <<2>>, <<5, 2>>}}
    \cup {[sc |-> FALSE, table |-> RawTable({"total_score"}, <<2>>, f)]}

RECURSIVE DirListings(_)
DirListings(n) ==
    IF n = 0 THEN {<<>>}
    ELSE DirListings(n - 1)
         \cup {Append(es, e) : es \in {l \in DirListings(n - 1) : Len(l) = n - 1},
                               e \in DirEntries(n)}

ScorePaths ==
    {[kind |-> "missing", table |-> NoDf, entries |-> <<>>]}
    \cup {[kind |-> "file", table |-> t, entries |-> <<>>] : t \in RawTables(1)}
    \cup {[kind |-> "dir", table |-> NoDf, entries |-> es] : es \in DirListings(MaxFiles)}

RankChoices == (-1)..MaxRank
FieldChoices == {NoneVal, Some("total_score"), Some("fa_rep"), Some("nope")}

InitScore ==
    /\ files = {"f.flag"}
    /\ dirs = {}
    /\ hostlines = <<>>
    /\ nodes = <<>>
    /\ job = NoJob
    /\ pc = "idle"
    /\ call = NoCall
    /\ launched = <<>>
    /\ launchTotal = 0
    /\ released = 0
    /\ warned = <<>>
    /\ tasks = <<>>
    /\ ncalls = 0
    /\ composed = <<>>
    /\ xml = NoXml
    /\ built = NoBuilt
    /\ slurm = NoSlurm
    /\ uid \in UserIds
    /\ peer = NoPeer
    /\ \E p \in ScorePaths :
          score = [state |-> "new", path |-> p, score_term |-> "total_score",
                   df |-> NoDf, error |-> "", warnings |-> <<>>,
                   rank |-> 0, field |-> NoneVal, result |-> <<>>]

NextScore ==
    \/ Load
    \/ \E rank \in RankChoices, field \in FieldChoices : Top(rank, field)

SpecScore == InitScore /\ [][NextScore]_vars

-----------------------------------------------------------------------------
(* Properties of the analyser.                                             *)

\* The column top sorts by according to C13: field when it is given and is
\* a column, the table's default score term otherwise.
ExpectedColumn == 
    IF score.field.given /\ score.field.v \in score.df.columns
    THEN score.field.v ELSE score.score_term

\* The rows in ascending order of col with equal cells in row order.
StableOrder(rows, col) ==
    CHOOSE o \in Permutations(1..Len(rows)) :
        \A i, j \in 1..Len(rows) :
            i < j => \/ CellLess(rows[o[i]][col], rows[o[j]][col])
                     \/ /\ ~CellLess(rows[o[j]][col], rows[o[i]][col])
                        /\ o[i] < o[j]

ExpectedTop ==
    LET rows == score.df.rows
        o == StableOrder(rows, ExpectedColumn)
    IN  [i \in 1..Min(score.rank, Len(rows)) |->
            [score |-> rows[o[i]][ExpectedColumn],
             decoy |-> rows[o[i]]["description"].s]]

TopCallDone == score.state \in {"top_returned", "top_raised"}

\* The part of C13 that does not depend on how ties are ordered: a rank
\* <= 0 raises ValueError; otherwise min(rank, rows) pairs are returned in
\* ascending order of the column, empty iff the table has no rows.
C13_TopSortedPrefix ==
    TopCallDone =>
        IF score.rank <= 0
        THEN score.state = "top_raised" /\ score.error = "ValueError"
        ELSE /\ score.state = "top_returned"
             /\ Len(score.result) = Min(score.rank, Len(score.df.rows))
             /\ \A i, j \in 1..Len(score.result) :
                   i < j => ~CellLess(score.result[j].score, score.result[i].score)
             /\ (score.result = <<>>) <=> (score.df.rows = <<>>)

\* C13: top fails with an invalid-rank error when rank <= 0; otherwise it
\* returns the first min(rank, rows) rows of the table sorted ascending by
\* the field (the default score term when the field is absent or not a
\* column) as {decoy, score} pairs, rows of equal score in their original
\* row order, and the result is empty iff the table has no rows; rows
\* A:5, B:2, C:2 with rank 2 give B, C in that order.
C13_TopStable ==
    TopCallDone =>
        IF score.rank <= 0
        THEN score.state = "top_raised" /\ score.error = "ValueError"
        ELSE /\ score.state = "top_returned"
             /\ score.result = ExpectedTop
             /\ (score.result = <<>>) <=> (score.df.rows = <<>>)
             /\ ( /\ score.path.kind = "file"
                  /\ score.path.table = RawTable({"total_score"}, <<5, 2, 2>>, 1)
                  /\ score.rank = 2 )
                => [i \in 1..2 |-> score.result[i].decoy] = <<"B", "C">>

\* The score files of the directory do not all have the same columns.
SchemasDiffer ==
    /\ score.path.kind = "dir"
    /\ \E a, b \in 1..Len(ScEntries(score.path.entries)) :
          ScEntries(score.path.entries)[a].table.columns
              # ScEntries(score.path.entries)[b].table.columns

\* C19: loading from a directory whose score files differ in their column
\* sets fails instead of producing a table, so that every row of a loaded
\* table has a value in every field of the table; loading from a path that
\* is neither a file nor a directory fails with FileNotFoundError.
C19_LoadRequiresSameSchema ==
    (score.state \notin {"none", "new"}) =>
        /\ (score.path.kind = "missing") =>
              (score.state = "raised" /\ score.error = "FileNotFoundError")
        /\ SchemasDiffer => score.state = "raised"
        /\ (score.state # "raised") =>
              \A i \in 1..Len(score.df.rows) :
                  \A c \in score.df.columns : ~score.df.rows[i][c].nan

\* The part of C19 about the path: a missing path raises FileNotFoundError,
\* and a loaded table has the rows of every file of the directory whose name
\* ends in ".sc", in order, and of no other file.
C19_LoadParsesScFiles ==
    (score.state \notin {"none", "new"}) =>
        /\ (score.path.kind = "missing") =>
              (score.state = "raised" /\ score.error = "FileNotFoundError")
        /\ (score.state # "raised" /\ score.path.kind = "dir") =>
              [i \in 1..Len(score.df.rows) |-> score.df.rows[i]["description"]]
                  = Flatten([k \in 1..Len(score.path.entries) |->
                        IF score.path.entries[k].sc
                        THEN [i \in 1..Len(score.path.entries[k].table.rows) |->
                                 score.path.entries[k].table.rows[i]["description"]]
                        ELSE <<>>])

-----------------------------------------------------------------------------
(* Properties of the MPI dispatch that depend on the user and on the host  *)
(* file.                                                                   *)

\* The launcher prefix apply puts before the command.
LauncherPrefix(n) == IF ~TruthyList(n.node_matrix) THEN local(n) ELSE host_file(n)

HasToken(cmd, t) == \E i \in 1..Len(cmd) : cmd[i] = t

\* C14: an MPI dispatch run by the superuser (uid 0) launches a command with
\* --allow-run-as-root directly after the launcher prefix and emits a
\* running-as-root warning; for any other user the flag is absent and no
\* such warning is emitted; in both cases exactly one process is launched.
C14_RootFlagAndWarning ==
    (call.via = "mpi") =>
        /\ Len(launched) = 1
        /\ LET prefix == LauncherPrefix(nodes[job.mpi_node])
           IN  IF uid = 0
               THEN /\ Len(launched[1]) > Len(prefix)
                    /\ launched[1][Len(prefix) + 1] = "--allow-run-as-root"
                    /\ Occurrences(warned, "RunningAsRootWarning") = 1
               ELSE /\ ~HasToken(launched[1], "--allow-run-as-root")
                    /\ Occurrences(warned, "RunningAsRootWarning") = 0

-----------------------------------------------------------------------------
(* MPI_node.from_slurm.  The environment is a record: nodelist is the      *)
(* value of SLURM_JOB_NODELIST, cpus and ntasks are the values of          *)
(* SLURM_CPUS_PER_TASK and SLURM_NTASKS_PER_NODE, each None when unset, as  *)
(* sequences of characters; scontrol is what running scontrol does and     *)
(* hosts the host names it prints.                                         *)

DigitChars == <<"0", "1", "2", "3", "4", "5", "6", "7", "8", "9">>

\* The decimal text of an integer, as a cluster manager exports it.
RECURSIVE NatText(_)
NatText(n) ==
    IF n < Len(DigitChars) THEN <<DigitChars[n + 1]>>
    ELSE NatText(n \div Len(DigitChars)) \o <<DigitChars[(n % Len(DigitChars)) + 1]>>

IntText(n) == IF n < 0 THEN <<"-">> \o NatText(0 - n) ELSE NatText(n)

\* int(text), lines 131-139, of a decimal text.
RECURSIVE ParseNat(_)
ParseNat(cs) ==
    IF cs = <<>> THEN 0
    ELSE ParseNat(SubSeq(cs, 1, Len(cs) - 1)) * Len(DigitChars)
         + (CHOOSE d \in 0..(Len(DigitChars) - 1) : DigitChars[d + 1] = cs[Len(cs)])

int(cs) == IF Head(cs) = "-" THEN 0 - ParseNat(Tail(cs)) ELSE ParseNat(cs)

\* os.environ.get(name, "1"), lines 128-129.
EnvGet(o) == IF o.given THEN o.v ELSE <<"1">>

\* The try block of lines 116-126 with a missing SLURM_JOB_NODELIST read as
\* one local host.
QueryNodesMutDefault(env) ==
    IF ~env.nodelist.given
    THEN [raised |-> FALSE, error |-> "", hosts |-> <<"localhost">>]
    ELSE IF env.scontrol = "CalledProcessError"
    THEN [raised |-> TRUE, error |-> "RuntimeError: Failed to get node list",
          hosts |-> <<>>]
    ELSE IF env.scontrol = "FileNotFoundError"
    THEN [raised |-> TRUE, error |-> "FileNotFoundError: scontrol", hosts |-> <<>>]
    ELSE [raised |-> FALSE, error |-> "", hosts |-> env.hosts]

\* The try block of lines 116-126: os.environ[...] raises KeyError when the
\* variable is unset, before scontrol is run; a non-zero exit of scontrol is
\* CalledProcessError; an scontrol that cannot be started raises
\* FileNotFoundError, which no handler catches.
QueryNodes(env) ==
    IF ~env.nodelist.given
    THEN [raised |-> TRUE,
          error |-> "RuntimeError: Environment variable '" \o "SLURM_JOB_NODELIST"
                    \o "' not set",
          hosts |-> <<>>]
    ELSE IF env.scontrol = "CalledProcessError"
    THEN [raised |-> TRUE, error |-> "RuntimeError: Failed to get node list",
          hosts |-> <<>>]
    ELSE IF env.scontrol = "FileNotFoundError"
    THEN [raised |-> TRUE, error |-> "FileNotFoundError: scontrol", hosts |-> <<>>]
    ELSE [raised |-> FALSE, error |-> "", hosts |-> env.hosts]

\* Lines 131-139 without the two corrections.
SlotsPerNodeMutNoFix(env) ==
    [slots |-> int(EnvGet(env.ntasks)) * int(EnvGet(env.cpus)), printed |-> <<>>]

\* Lines 128-139: the slots of every host, and what is printed.
SlotsPerNode(env) ==
    LET cpus == EnvGet(env.cpus)
        ntasks == EnvGet(env.ntasks)
        cpus_fixed == IF int(cpus) < 1 THEN <<"1">> ELSE cpus
        ntasks_fixed == IF int(ntasks) < 1 THEN <<"1">> ELSE ntasks
    IN  [slots |-> int(ntasks_fixed) * int(cpus_fixed),
         printed |-> (IF int(cpus) < 1 THEN <<"SLURM_CPUS_PER_TASK">> ELSE <<>>)
                     \o (IF int(ntasks) < 1 THEN <<"SLURM_NTASKS_PER_NODE">>
                         ELSE <<>>)]

\* MPI_node.from_slurm(), lines 114-142; cls(total_nproc, node_dict) runs
\* __post_init__, which writes the host file.
FromSlurm ==
    /\ slurm.state = "called"
    /\ LET q == QueryNodes(slurm.env)
           per == SlotsPerNode(slurm.env)
           node_dict == [i \in 1..Len(q.hosts) |-> <<q.hosts[i], per.slots>>]
           total_nproc == SumSlots(node_dict)
       IN  IF q.raised
           THEN /\ slurm' = [slurm EXCEPT !.state = "raised", !.error = q.error]
                /\ UNCHANGED <<nodes, files, hostlines>>
           ELSE /\ slurm' = [slurm EXCEPT !.state = "returned",
                                          !.printed = per.printed,
                                          !.node = Len(nodes) + 1]
                /\ nodes' = Append(nodes, MpiNodePostInit(total_nproc, Some(node_dict)))
                /\ files' = files \cup {node_file}
                /\ hostlines' = HostFileLines(node_dict)
    /\ UNCHANGED <<dirs, job, pc, call, launched, launchTotal, released, warned,
                   tasks, ncalls, composed, xml, built, score, uid, peer>>

HostNames == <<"node01", "node02", "node03", "node04">>

\* The counts a job may export: small ones, and one of two digits.
CountValues == ((-1)..MaxCount) \cup {12}

CountChoices == {NoneVal} \cup {Some(IntText(n)) : n \in CountValues}

SlurmEnvs ==
    [nodelist : {NoneVal, Some("node[01-04]")},
     scontrol : {"ok", "CalledProcessError", "FileNotFoundError"},
     hosts : {SubSeq(HostNames, 1, h) : h \in 1..MaxHosts},
     cpus : CountChoices,
     ntasks : CountChoices]

InitSlurm ==
    /\ files = {"f.flag"}
    /\ dirs = {}
    /\ hostlines = <<>>
    /\ nodes = <<>>
    /\ job = NoJob
    /\ pc = "idle"
    /\ call = NoCall
    /\ launched = <<>>
    /\ launchTotal = 0
    /\ released = 0
    /\ warned = <<>>
    /\ tasks = <<>>
    /\ ncalls = 0
    /\ composed = <<>>
    /\ xml = NoXml
    /\ built = NoBuilt
    /\ score = NoScore
    /\ uid \in UserIds
    /\ peer = NoPeer
    /\ \E env \in SlurmEnvs :
          slurm = [state |-> "called", env |-> env, error |-> "",
                   printed |-> <<>>, node |-> 0]

NextSlurm == FromSlurm

SpecSlurm == InitSlurm /\ [][NextSlurm]_vars

-----------------------------------------------------------------------------
(* Properties of from_slurm.                                               *)

SlurmCallDone == slurm.state \in {"returned", "raised"}

EnvInt(o) ==
    IF o.given THEN CHOOSE n \in CountValues : IntText(n) = o.v ELSE 1

Max(a, b) == IF a >= b THEN a ELSE b

\* C18: for h hosts and per-node task count t and per-task CPU count c (1
\* when unset), the allocation from_slurm returns gives every host
\* max(1, t) x max(1, c) slots, at least 1, and has h x max(1, t) x max(1, c)
\* processes in total; something is printed exactly when t or c was raised
\* to 1.
C18_SlurmSlotsClamped ==
    (slurm.state = "returned") =>
        LET t == EnvInt(slurm.env.ntasks)
            c == EnvInt(slurm.env.cpus)
            n == nodes[slurm.node]
            h == Len(slurm.env.hosts)
        IN  /\ n.node_matrix.given
            /\ Len(n.node_matrix.v) = h
            /\ \A i \in 1..h :
                  /\ n.node_matrix.v[i][1] = slurm.env.hosts[i]
                  /\ n.node_matrix.v[i][2] = Max(1, t) * Max(1, c)
                  /\ n.node_matrix.v[i][2] >= 1
            /\ n.nproc = h * Max(1, t) * Max(1, c)
            /\ (slurm.printed # <<>>) <=> (t < 1 \/ c < 1)

\* from_slurm has returned an allocation of several hosts after raising a
\* task count below 1 and keeping a CPU count above 1.
C18_Witness ==
    /\ slurm.state = "returned"
    /\ Len(slurm.env.hosts) > 1
    /\ EnvInt(slurm.env.ntasks) < 1
    /\ EnvInt(slurm.env.cpus) > 1
    /\ slurm.printed # <<>>

-----------------------------------------------------------------------------
(* A second job batch in the same process: another caller builds its own   *)
(* cluster-mode MPI_node and dispatches its own Rosetta job, with its own  *)
(* output directory, through run_mpi.  Its steps interleave with those of  *)
(* the first batch; of its state only what touches the host file is kept.  *)

PeerMatrix == << <<"node3", 4>> >>

\* MPI_node(node_matrix=PeerMatrix): __post_init__ writes the host file.
PeerNodeInit ==
    /\ peer.pc = "none"
    /\ peer' = [pc |-> "built", node |-> MpiNodePostInit(0, Some(PeerMatrix)),
                hostfile |-> NoneVal]
    /\ files' = files \cup {node_file}
    /\ hostlines' = HostFileLines(PeerMatrix)
    /\ UNCHANGED <<dirs, nodes, job, pc, call, launched, launchTotal, released,
                   warned, tasks, ncalls, composed, xml, built, slurm, score, uid>>

\* The second batch's run_mpi enters apply and launches its process, which
\* reads the file its command names.
PeerLaunch ==
    /\ peer.pc = "built"
    /\ peer' = [peer EXCEPT !.pc = "exec", !.hostfile = ReadHostFile]
    /\ UNCHANGED <<files, dirs, hostlines, nodes, job, pc, call, launched,
                   launchTotal, released, warned, tasks, ncalls, composed, xml,
                   built, slurm, score, uid>>

\* The second batch's process ends; after exit status 0 apply resumes after
\* its yield and removes the host file.
PeerProcessEnd(outcome) ==
    /\ peer.pc = "exec"
    /\ peer' = [peer EXCEPT !.pc = "done"]
    /\ IF outcome = "exit0"
       THEN /\ files' = IF isfile(node_file, files, dirs)
                        THEN files \ {node_file} ELSE files
            /\ hostlines' = IF isfile(node_file, files, dirs)
                            THEN <<>> ELSE hostlines
       ELSE UNCHANGED <<files, hostlines>>
    /\ UNCHANGED <<dirs, nodes, job, pc, call, launched, launchTotal, released,
                   warned, tasks, ncalls, composed, xml, built, slurm, score, uid>>

NextPeers ==
    \/ \E nproc \in NprocChoices, m \in MatrixChoices : MpiNodeInit(nproc, m)
    \/ \E args \in DispatchJobs : RosettaInit(args)
    \/ \E inputs \in {NoneVal}, nstruct \in {NoneInt, Some(2)} : RunMpi(inputs, nstruct)
    \/ \E outcome \in ProcessOutcomes : MpiProcessEnd(outcome)
    \/ PeerNodeInit
    \/ PeerLaunch
    \/ \E outcome \in ProcessOutcomes : PeerProcessEnd(outcome)

SpecPeers == Init /\ [][NextPeers]_vars

-----------------------------------------------------------------------------
(* Properties of the host file.                                            *)

\* The job uses a cluster-mode allocation: one with a host mapping.
ClusterJob ==
    /\ job.state = "ok"
    /\ job.mpi_node # 0
    /\ TruthyList(nodes[job.mpi_node].node_matrix)

OwnHostLines == HostFileLines(nodes[job.mpi_node].node_matrix.v)

\* C16: in cluster mode, for every sequence of run_mpi calls on one
\* allocation, the host file exists with one line "<host> slots=<n>" per
\* host at the launch of every call, the second and later ones included,
\* and is removed after the call, so that it does not exist once a call is
\* over.
C16_HostFileScopedToCall ==
    (ClusterJob /\ call.via = "mpi") =>
        /\ call.hostfile = Some(OwnHostLines)
        /\ (pc = "idle") => ~isfile(node_file, files, dirs)

\* The file every launch of a cluster-mode call found was the allocation's
\* own: the part of C16 about the moment of the launch.
C16_HostFileAtEveryLaunch ==
    (ClusterJob /\ call.via = "mpi") => call.hostfile = Some(OwnHostLines)

\* C17: two batches with two different cluster-mode allocations do not
\* interfere under any interleaving of their steps: the two host files have
\* different names, the file each launch reads holds exactly the host lines
\* of its own allocation, and no release removes or overwrites the file the
\* other batch's launch depends on.
C17_BatchesDoNotInterfere ==
    /\ (ClusterJob /\ peer.pc # "none") =>
          host_file(nodes[job.mpi_node])[3] # host_file(peer.node)[3]
    /\ (ClusterJob /\ peer.pc # "none" /\ call.via = "mpi" /\ ncalls = 1) =>
          call.hostfile = Some(OwnHostLines)
    /\ (ClusterJob /\ peer.pc \in {"exec", "done"}) =>
          peer.hostfile = Some(HostFileLines(PeerMatrix))

\* The part of C17 about what each launch reads, for a first batch that
\* dispatches once.
C17_LaunchReadsOwnHosts ==
    /\ (ClusterJob /\ peer.pc # "none" /\ call.via = "mpi" /\ ncalls = 1) =>
          call.hostfile = Some(OwnHostLines)
    /\ (ClusterJob /\ peer.pc \in {"exec", "done"}) =>
          peer.hostfile = Some(HostFileLines(PeerMatrix))

=============================================================================
